---- MODULE Spec2Model ----
(***************************************************************************)
(* Hyper Stack Manager (hsm): the project manifest (hsm.yaml, the          *)
(* Selection State), the mode resolver, the synchronisation engine that    *)
(* resolves the selection into a requirement list and service configs,     *)
(* and the validator.  Strings that the code builds or rewrites are        *)
(* sequences of tokens; ordered dicts are sequences of key/value records.  *)
(***************************************************************************)
EXTENDS Naturals, Sequences, FiniteSets, TLC

VARIABLES
    data,             \* HSMProjectManifest.data as persisted in hsm.yaml
    manifestOnDisk,   \* hsm.yaml exists (HSMProjectManifest.path.exists())
    syncResult,       \* outcome of the last sync command: "none" | "ok" | "raised"
    packagesHanded,   \* argument of package_adapter.sync in the last sync
    containersHanded, \* argument of container_adapter.generate_config in the last sync
    pyprojectDeps,    \* project.dependencies of pyproject.toml
    composeFile,      \* services of docker-compose.hsm.yml
    checkResult,      \* outcome of the last check command
    inSync,           \* the last sync succeeded and the manifest is unchanged since
    registry,         \* the names of the *.yaml files of each directory of hsm-registry
    globalMode        \* argument of the last set_global_mode, "unset" before

vars == <<data, manifestOnDisk, syncResult, packagesHanded, containersHanded,
          pyprojectDeps, composeFile, checkResult, inSync, globalMode, registry>>

outVars == <<syncResult, packagesHanded, containersHanded, pyprojectDeps, composeFile>>

----------------------------------------------------------------------------
(* Sequence and ordered-dict helpers *)

SeqContains(s, x) == \E i \in 1..Len(s) : s[i] = x

SeqToSet(s) == {s[i] : i \in 1..Len(s)}

RemoveAt(s, i) == SubSeq(s, 1, i - 1) \o SubSeq(s, i + 1, Len(s))

\* list.remove(x): drops the first element equal to x
RemoveFirst(s, x) ==
    IF SeqContains(s, x)
    THEN RemoveAt(s, CHOOSE i \in 1..Len(s) : s[i] = x /\ \A j \in 1..(i - 1) : s[j] # x)
    ELSE s

RECURSIVE Flatten(_)
Flatten(ss) == IF ss = <<>> THEN <<>> ELSE Head(ss) \o Flatten(Tail(ss))

\* keeps the first occurrence of every element, in order
RECURSIVE DedupFirst(_)
DedupFirst(s) ==
    IF s = <<>> THEN <<>>
    ELSE LET r == DedupFirst(SubSeq(s, 1, Len(s) - 1))
             x == s[Len(s)]
         IN IF SeqContains(r, x) THEN r ELSE Append(r, x)

\* ordered dict as a sequence of [k, v] records
DictKeys(d) == [i \in 1..Len(d) |-> d[i].k]

DictHas(d, key) == \E i \in 1..Len(d) : d[i].k = key

DictGet(d, key) == d[CHOOSE i \in 1..Len(d) : d[i].k = key].v

\* d[key] = val: an existing key keeps its place, a new key goes last
DictSet(d, key, val) ==
    IF DictHas(d, key)
    THEN [i \in 1..Len(d) |-> IF d[i].k = key THEN [k |-> key, v |-> val] ELSE d[i]]
    ELSE Append(d, [k |-> key, v |-> val])

\* {**a, **b}
RECURSIVE DictUpdate(_, _)
DictUpdate(a, b) ==
    IF b = <<>> THEN a
    ELSE DictUpdate(DictSet(a, Head(b).k, Head(b).v), Tail(b))

\* str.replace(pat, rep) on token sequences: every non-overlapping occurrence, left to right
RECURSIVE Replace(_, _, _)
Replace(s, pat, rep) ==
    IF Len(s) < Len(pat) \/ pat = <<>> THEN s
    ELSE IF SubSeq(s, 1, Len(pat)) = pat
         THEN rep \o Replace(SubSeq(s, Len(pat) + 1, Len(s)), pat, rep)
         ELSE <<Head(s)>> \o Replace(Tail(s), pat, rep)

\* pat in s
RECURSIVE Occurs(_, _)
Occurs(s, pat) ==
    IF Len(s) < Len(pat) THEN FALSE
    ELSE SubSeq(s, 1, Len(pat)) = pat \/ Occurs(Tail(s), pat)

\* sep.join(parts), parts a sequence of token sequences
RECURSIVE Join(_, _)
Join(sep, parts) ==
    IF parts = <<>> THEN <<>>
    ELSE IF Len(parts) = 1 THEN Head(parts)
    ELSE Head(parts) \o sep \o Join(sep, Tail(parts))

----------------------------------------------------------------------------
(* The registry: the component and group definitions on disk *)

Source ==
    [type |-> "none", url |-> "", ref |-> "", path |-> "", image |-> "",
     container_name |-> "", network_aliases |-> <<>>, ports |-> <<>>,
     volumes |-> <<>>, env |-> <<>>, dockerfile |-> ""]

ManifestSources == [prod |-> Source, dev |-> Source]

\* the token sequence of "${HSM_MERGED_PARAMS.<key>}"
Placeholder(key) == <<"${HSM_MERGED_PARAMS.", key, "}">>

ParamsImply(type, name, key, val) ==
    [target |-> <<type, name>>,
     config |-> [kind |-> "params", params |-> <<[k |-> key, v |-> val]>>, options |-> <<>>]]

\* an implies entry without params: {"<type>:<name>": {}}
PlainImply(type, name) ==
    [target |-> <<type, name>>,
     config |-> [kind |-> "params", params |-> <<>>, options |-> <<>>]]

OptionImply(type, name, opts) ==
    [target |-> <<type, name>>,
     config |-> [kind |-> IF Len(opts) = 1 THEN "str" ELSE "list", params |-> <<>>, options |-> opts]]

RegistryLibraries == {"auth", "billing", "stats", "draft"}

LibraryManifest(name) ==
    CASE name = "auth" ->
           [sources |-> [ManifestSources EXCEPT
                           !.prod = [Source EXCEPT !.type = "git", !.url = "https://github.com/org/auth"]],
            implies |-> <<ParamsImply("service", "pg", "db_name", <<"auth_db">>),
                          PlainImply("library", "billing")>>]
      [] name = "billing" ->
           [sources |-> [ManifestSources EXCEPT
                           !.prod = [Source EXCEPT !.type = "git", !.url = "https://github.com/org/billing",
                                                   !.ref = "v2"],
                           !.dev = [Source EXCEPT !.type = "local", !.path = "libs/billing"]],
            implies |-> <<ParamsImply("service", "pg", "db_name", <<"billing_db">>),
                          PlainImply("library", "auth"),
                          PlainImply("service", "ghost")>>]
      [] name = "draft" ->
           [sources |-> [ManifestSources EXCEPT
                           !.dev = [Source EXCEPT !.type = "local", !.path = "libs/draft"]],
            implies |-> <<>>]
      [] OTHER ->
           [sources |-> [ManifestSources EXCEPT
                           !.prod = [Source EXCEPT !.type = "pypi"]],
            implies |-> <<ParamsImply("service", "pg", "db_name", <<"stats_db">>)>>]

RegistryServices == {"pg", "web"}

ServiceManifest(name) ==
    CASE name = "pg" ->
           [container_name |-> "",
            network_aliases |-> <<"db">>,
            ports |-> <<"80:80">>,
            volumes |-> <<"pgdata:/var/lib/postgresql">>,
            env |-> <<[k |-> "A", v |-> <<"1">>],
                      [k |-> "POSTGRES_MULTIPLE_DATABASES", v |-> Placeholder("db_name")],
                      [k |-> "DB_PASSWORD", v |-> <<"${NEO4J_PROD_PASSWORD}">>]>>,
            sources |-> [prod |-> [Source EXCEPT !.type = "docker-image", !.image = "postgres:16-alpine",
                                                 !.ports = <<"443:443">>,
                                                 !.network_aliases = <<"db">>,
                                                 !.env = <<[k |-> "A", v |-> <<"2">>]>>],
                         dev |-> [Source EXCEPT !.type = "build", !.path = "services/pg",
                                                !.dockerfile = "Dockerfile.dev",
                                                !.container_name = "pg-dev"]],
            deployment_profiles |-> <<[k |-> "external-prod", v |-> "external"],
                                      [k |-> "local", v |-> "managed"]>>]
      [] OTHER ->
           [container_name |-> "chunker",
            network_aliases |-> <<>>,
            ports |-> <<"${NEO4J_PROD_PORT}:7474">>,
            volumes |-> <<>>,
            env |-> <<>>,
            sources |-> [ManifestSources EXCEPT
                           !.prod = [Source EXCEPT !.type = "docker-image", !.image = "my-chunker:latest"]],
            deployment_profiles |-> <<>>]

RegistryLibraryGroups == {"backend"}

RegistryServiceGroups == {"db", "infra"}

\* the files of hsm-registry, by directory
RegistryFiles ==
    [libraries |-> RegistryLibraries, services |-> RegistryServices,
     library_groups |-> RegistryLibraryGroups, service_groups |-> RegistryServiceGroups,
     service_group |-> {}]

GroupOption(name, implies) == [name |-> name, implies |-> implies]

RegistryGroup(name) ==
    CASE name = "backend" ->
           [type |-> "library_group", strategy |-> "M-of-N",
            options |-> <<GroupOption("auth", <<OptionImply("service_group", "db", <<"pg">>)>>),
                          GroupOption("billing", <<ParamsImply("service", "pg", "db_name", <<"billing_db">>)>>),
                          GroupOption("draft", <<OptionImply("service_group", "db", <<"web">>),
                                                 OptionImply("service_group", "ghost", <<"pg">>)>>)>>]
      [] name = "db" ->
           [type |-> "service_group", strategy |-> "1-of-N",
            options |-> <<GroupOption("pg", <<>>), GroupOption("web", <<>>)>>]
      [] OTHER ->
           [type |-> "service_group", strategy |-> "M-of-N",
            options |-> <<GroupOption("pg", <<>>),
                          GroupOption("web", <<ParamsImply("service", "pg", "db_name", <<"infra_db">>)>>)>>]

----------------------------------------------------------------------------
(* The project manifest hsm.yaml *)

NoSelection == [kind |-> "none", names |-> <<>>]

StrSelection(option) == [kind |-> "str", names |-> <<option>>]

ListSelection(options) == [kind |-> "list", names |-> options]

\* selection == name or (isinstance(selection, (list, tuple)) and name in selection)
SelectionHas(selection, name) ==
    \/ selection.kind = "str" /\ selection.names[1] = name
    \/ selection.kind = "list" /\ SeqContains(selection.names, name)

StrEntry(name) == [name |-> name, form |-> "str", mode |-> "none", profile |-> "none"]

_load ==
    [libGroups |-> <<>>, libStandalone |-> <<>>,
     svcGroups |-> <<>>, svcStandalone |-> <<>>,
     modes |-> <<>>]

GroupIndex(groups, name) == CHOOSE i \in 1..Len(groups) : groups[i].name = name

HasGroup(groups, name) == \E i \in 1..Len(groups) : groups[i].name = name

\* position of the first standalone entry, str or dict, named name (0: none)
EntryIndex(entries, name) ==
    IF \E i \in 1..Len(entries) : entries[i].name = name
    THEN CHOOSE i \in 1..Len(entries) :
            entries[i].name = name /\ \A j \in 1..(i - 1) : entries[j].name # name
    ELSE 0

libraries(d) == [i \in 1..Len(d.libStandalone) |-> d.libStandalone[i].name]

services(d) == [i \in 1..Len(d.svcStandalone) |-> d.svcStandalone[i].name]

library_groups(d) == d.libGroups

service_groups(d) == d.svcGroups

\* `name not in pkgs` compares name with the list elements: only a plain string entry is equal
add_entry(entries, name) ==
    IF SeqContains(entries, StrEntry(name)) THEN entries ELSE Append(entries, StrEntry(name))

add_library(d, name) == [d EXCEPT !.libStandalone = add_entry(@, name)]

add_service(d, name) == [d EXCEPT !.svcStandalone = add_entry(@, name)]

remove_library(d, name) == [d EXCEPT !.libStandalone = RemoveFirst(@, StrEntry(name))]

remove_service(d, name) == [d EXCEPT !.svcStandalone = RemoveFirst(@, StrEntry(name))]

remove_option(groups, group_name, option) ==
    LET i == GroupIndex(groups, group_name)
        selection == groups[i].selection
    IN IF selection.kind = "list"
       THEN [groups EXCEPT ![i].selection.names = RemoveFirst(@, option)]
       ELSE IF selection.kind = "str" /\ selection.names[1] = option
            THEN RemoveAt(groups, i)
            ELSE groups

remove_from_group(d, group_name, option) ==
    IF HasGroup(d.libGroups, group_name)
    THEN [d EXCEPT !.libGroups = remove_option(@, group_name, option)]
    ELSE IF HasGroup(d.svcGroups, group_name)
         THEN [d EXCEPT !.svcGroups = remove_option(@, group_name, option)]
         ELSE d

remove_group(d, group_name) ==
    IF HasGroup(d.libGroups, group_name)
    THEN [d EXCEPT !.libGroups = RemoveAt(@, GroupIndex(@, group_name))]
    ELSE IF HasGroup(d.svcGroups, group_name)
         THEN [d EXCEPT !.svcGroups = RemoveAt(@, GroupIndex(@, group_name))]
         ELSE d

add_option(groups, group_name, option, strategy) ==
    LET gs == IF HasGroup(groups, group_name) THEN groups
              ELSE Append(groups, [name |-> group_name, strategy |-> strategy,
                                   selection |-> NoSelection, mode |-> "none", profile |-> "none"])
        i == GroupIndex(gs, group_name)
        selection == gs[i].selection
    IN IF strategy = "1-of-N"
       THEN [gs EXCEPT ![i].selection = StrSelection(option)]
       ELSE IF selection.kind = "none"
            THEN [gs EXCEPT ![i].selection = ListSelection(<<option>>)]
            ELSE IF selection.kind = "str"
                 THEN [gs EXCEPT ![i].selection = ListSelection(<<selection.names[1], option>>)]
                 ELSE IF SeqContains(selection.names, option) THEN gs
                      ELSE [gs EXCEPT ![i].selection.names = Append(@, option)]

add_option_to_group(d, group_name, option, strategy, is_service) ==
    IF is_service
    THEN [d EXCEPT !.svcGroups = add_option(@, group_name, option, strategy)]
    ELSE [d EXCEPT !.libGroups = add_option(@, group_name, option, strategy)]

\* groups[group_name] = {"strategy": ..., "selection": ...}: the old entry, its mode and
\* profile included, is replaced in place; a new group goes last
set_group_in(groups, group_name, selection, strategy) ==
    LET g == [name |-> group_name, strategy |-> strategy, selection |-> selection,
              mode |-> "none", profile |-> "none"]
    IN IF HasGroup(groups, group_name)
       THEN [groups EXCEPT ![GroupIndex(groups, group_name)] = g]
       ELSE Append(groups, g)

set_group(d, group_name, selection, strategy, is_service) ==
    IF is_service
    THEN [d EXCEPT !.svcGroups = set_group_in(@, group_name, selection, strategy)]
    ELSE [d EXCEPT !.libGroups = set_group_in(@, group_name, selection, strategy)]

\* a plain string entry becomes {"name": ..., "mode": ...}; a dict entry gets its mode set
set_entry_mode(entries, i, mode) ==
    [entries EXCEPT ![i].form = "dict", ![i].mode = mode]

set_mode(d, name, mode) ==
    IF HasGroup(d.libGroups, name)
    THEN [d EXCEPT !.libGroups[GroupIndex(d.libGroups, name)].mode = mode]
    ELSE IF EntryIndex(d.libStandalone, name) # 0
    THEN [d EXCEPT !.libStandalone = set_entry_mode(@, EntryIndex(@, name), mode)]
    ELSE IF HasGroup(d.svcGroups, name)
    THEN [d EXCEPT !.svcGroups[GroupIndex(d.svcGroups, name)].mode = mode]
    ELSE IF EntryIndex(d.svcStandalone, name) # 0
    THEN [d EXCEPT !.svcStandalone = set_entry_mode(@, EntryIndex(@, name), mode)]
    ELSE [d EXCEPT !.modes = DictSet(@, name, mode)]

\* g_cfg.get("mode", "prod")
ModeOr(mode, default) == IF mode = "none" THEN default ELSE mode

\* the first group, in manifest order, whose selection holds name (0: none)
FirstSelecting(groups, name) ==
    IF \E i \in 1..Len(groups) : SelectionHas(groups[i].selection, name)
    THEN CHOOSE i \in 1..Len(groups) :
            /\ SelectionHas(groups[i].selection, name)
            /\ \A j \in 1..(i - 1) : ~SelectionHas(groups[j].selection, name)
    ELSE 0

\* the first dict entry named name (0: none)
FirstDictEntry(entries, name) ==
    IF \E i \in 1..Len(entries) : entries[i].form = "dict" /\ entries[i].name = name
    THEN CHOOSE i \in 1..Len(entries) :
            /\ entries[i].form = "dict" /\ entries[i].name = name
            /\ \A j \in 1..(i - 1) : ~(entries[j].form = "dict" /\ entries[j].name = name)
    ELSE 0

get_mode(d, name) ==
    IF HasGroup(d.libGroups, name) /\ d.libGroups[GroupIndex(d.libGroups, name)].mode # "none"
    THEN d.libGroups[GroupIndex(d.libGroups, name)].mode
    ELSE IF FirstSelecting(d.libGroups, name) # 0
    THEN ModeOr(d.libGroups[FirstSelecting(d.libGroups, name)].mode, "prod")
    ELSE IF FirstDictEntry(d.libStandalone, name) # 0
    THEN ModeOr(d.libStandalone[FirstDictEntry(d.libStandalone, name)].mode, "prod")
    ELSE IF HasGroup(d.svcGroups, name) /\ d.svcGroups[GroupIndex(d.svcGroups, name)].mode # "none"
    THEN d.svcGroups[GroupIndex(d.svcGroups, name)].mode
    ELSE IF FirstSelecting(d.svcGroups, name) # 0
    THEN ModeOr(d.svcGroups[FirstSelecting(d.svcGroups, name)].mode, "prod")
    ELSE IF FirstDictEntry(d.svcStandalone, name) # 0
    THEN ModeOr(d.svcStandalone[FirstDictEntry(d.svcStandalone, name)].mode, "prod")
    ELSE IF DictHas(d.modes, name) THEN DictGet(d.modes, name) ELSE "prod"

----------------------------------------------------------------------------
(* The synchronisation engine *)

project_root == "/project"

IsSet(source) == source.type # "none"

\* the prod variant whatever the mode
EffectiveSourceProdOnly(sources, mode) == sources.prod
\* manifest.sources.dev if mode == "dev" and manifest.sources.dev else manifest.sources.prod
EffectiveSource(sources, mode) ==
    IF mode = "dev" /\ IsSet(sources.dev) THEN sources.dev ELSE sources.prod

\* the requirement string as its tokens; <<>> is None
_resolve_package_requirement(d, name) ==
    IF name \notin registry.libraries THEN <<>>
    ELSE LET source == EffectiveSource(LibraryManifest(name).sources, get_mode(d, name))
         IN IF ~IsSet(source) THEN <<>>
            ELSE IF source.type = "local"
                 THEN <<name, " @ ", "file://", project_root, "/", source.path>>
                 ELSE IF source.type = "git"
                      THEN <<name, " @ git+", source.url>>
                           \o (IF source.ref # "" THEN <<"@", source.ref>> ELSE <<>>)
                      ELSE <<>>

\* the strings that occur in the ports, volumes and alias lists of a service
ServiceStrings(n) ==
    ServiceManifest(n).ports \o ServiceManifest(n).sources.prod.ports
      \o ServiceManifest(n).sources.dev.ports
      \o ServiceManifest(n).volumes \o ServiceManifest(n).sources.prod.volumes
      \o ServiceManifest(n).sources.dev.volumes
      \o ServiceManifest(n).network_aliases \o ServiceManifest(n).sources.prod.network_aliases
      \o ServiceManifest(n).sources.dev.network_aliases

ListStrings == DedupFirst(ServiceStrings("pg") \o ServiceStrings("web"))

Reverse(s) == [i \in 1..Len(s) |-> s[Len(s) + 1 - i]]

\* The iteration order of a set of str follows the string hash seed of the process, so
\* two processes may enumerate the same set in different orders.  A hash order ranks the
\* strings; an order and its reverse give every set of up to two strings both its orders.
HashOrders == {ListStrings, Reverse(ListStrings)}

\* list(set(xs)) under the hash order
ListOfSet(xs, order) == SelectSeq(order, LAMBDA x : SeqContains(xs, x))

\* the profile tag sync reads for a service: the first service group whose selection holds
\* the name decides; only when that gives no tag, the first dict entry of that name
ProfileName(d, name) ==
    LET g == FirstSelecting(d.svcGroups, name)
        fromGroup == IF g # 0 THEN d.svcGroups[g].profile ELSE "none"
        e == FirstDictEntry(d.svcStandalone, name)
    IN IF fromGroup # "none" THEN fromGroup
       ELSE IF e # 0 THEN d.svcStandalone[e].profile ELSE "none"

\* a substitution that expands a variable of the host environment in every env value
SubstituteAmbient(env, merged_params) ==
    [i \in 1..Len(env) |->
       [k |-> env[i].k, v |-> Replace(env[i].v, <<"${NEO4J_PROD_PASSWORD}">>, <<"secret123">>)]]
\* for k, v in merged_params.items(): every env value has the placeholder of k replaced
RECURSIVE SubstituteParams(_, _)
SubstituteParams(env, merged_params) ==
    IF merged_params = <<>> THEN env
    ELSE LET placeholder == Placeholder(Head(merged_params).k)
             val_str == Join(<<",">>, Head(merged_params).v)
             env2 == [i \in 1..Len(env) |->
                        IF Occurs(env[i].v, placeholder)
                        THEN [k |-> env[i].k, v |-> Replace(env[i].v, placeholder, val_str)]
                        ELSE env[i]]
         IN SubstituteParams(env2, Tail(merged_params))

\* the merge with the precedence reversed: for a key in both, the common value stays
MergeEnvCommonWins(common, variant) == DictUpdate(variant, common)
\* {**manifest.env, **source.env}
MergeEnv(common, variant) == DictUpdate(common, variant)

\* list(set(manifest.ports + source.ports)), and the same for volumes and aliases
MergeList(common, variant, order) == ListOfSet(common \o variant, order)

\* source.container_name or manifest.container_name or name
ContainerName(source, manifest, name) ==
    IF source.container_name # "" THEN source.container_name
    ELSE IF manifest.container_name # "" THEN manifest.container_name ELSE name

\* <<>> is None, <<cfg>> the config {name: service_cfg}
_resolve_container_config(d, name, merged_params, order) ==
    IF name \notin registry.services THEN <<>>
    ELSE LET manifest == ServiceManifest(name)
             profile_name == ProfileName(d, name)
             source == EffectiveSource(manifest.sources, get_mode(d, name))
         IN IF /\ profile_name # "none"
               /\ DictHas(manifest.deployment_profiles, profile_name)
               /\ DictGet(manifest.deployment_profiles, profile_name) = "external"
            THEN <<>>
            ELSE IF ~IsSet(source) THEN <<>>
            ELSE <<[name |-> name,
                    container_name |-> ContainerName(source, manifest, name),
                    environment |-> SubstituteParams(MergeEnv(manifest.env, source.env), merged_params),
                    ports |-> MergeList(manifest.ports, source.ports, order),
                    volumes |-> MergeList(manifest.volumes, source.volumes, order),
                    aliases |-> MergeList(manifest.network_aliases, source.network_aliases, order),
                    image |-> IF source.type = "docker-image" THEN source.image ELSE "",
                    build |-> IF source.type \in {"build", "local"}
                              THEN <<project_root, "/", source.path>> ELSE <<>>,
                    dockerfile |-> IF source.type = "build" THEN source.dockerfile ELSE ""]>>

\* merged_implies_params: ordered dict target -> list of params
RECURSIVE collect_implies(_, _)
collect_implies(merged, implies) ==
    IF implies = <<>> THEN merged
    ELSE LET target == Head(implies).target
             config == Head(implies).config
             params == IF config.kind = "params" THEN config.params ELSE <<>>
             old == IF DictHas(merged, target) THEN DictGet(merged, target) ELSE <<>>
         IN collect_implies(DictSet(merged, target, Append(old, params)), Tail(implies))

\* the (group, selected name) pairs in manifest order; an empty selection is skipped
GroupPicks(groups) ==
    Flatten([i \in 1..Len(groups) |->
               [j \in 1..Len(groups[i].selection.names) |->
                  [group |-> groups[i].name, name |-> groups[i].selection.names[j]]]])

\* the implies of the registry group's option named pkg_name
OptionImplies(group_name, pkg_name) ==
    IF group_name \in registry.library_groups
    THEN LET options == RegistryGroup(group_name).options
         IN IF \E i \in 1..Len(options) : options[i].name = pkg_name
            THEN options[CHOOSE i \in 1..Len(options) :
                            options[i].name = pkg_name
                            /\ \A j \in 1..(i - 1) : options[j].name # pkg_name].implies
            ELSE <<>>
    ELSE <<>>

\* steps 1 and 2: [packages |-> ordered dict name -> requirement, merged |-> implies]
RECURSIVE ResolveGroupLibraries(_, _, _)
ResolveGroupLibraries(d, picks, acc) ==
    IF picks = <<>> THEN acc
    ELSE LET pkg_name == Head(picks).name
             pkg_req == _resolve_package_requirement(d, pkg_name)
         IN ResolveGroupLibraries(d, Tail(picks),
              IF pkg_req # <<>>
              THEN [packages |-> DictSet(acc.packages, pkg_name, pkg_req),
                    merged |-> collect_implies(acc.merged, OptionImplies(Head(picks).group, pkg_name))]
              ELSE acc)

\* step 2 collecting the implies of every standalone library that has a registry file
RECURSIVE StandaloneLibrariesImplyAlways(_, _, _)
StandaloneLibrariesImplyAlways(d, names, acc) ==
    IF names = <<>> THEN acc
    ELSE LET pkg_name == Head(names)
             pkg_req == _resolve_package_requirement(d, pkg_name)
         IN StandaloneLibrariesImplyAlways(d, Tail(names),
              [packages |-> IF pkg_req # <<>> THEN DictSet(acc.packages, pkg_name, pkg_req)
                            ELSE acc.packages,
               merged |-> IF pkg_name \in registry.libraries
                          THEN collect_implies(acc.merged, LibraryManifest(pkg_name).implies)
                          ELSE acc.merged])
RECURSIVE ResolveStandaloneLibraries(_, _, _)
ResolveStandaloneLibraries(d, names, acc) ==
    IF names = <<>> THEN acc
    ELSE LET pkg_name == Head(names)
             pkg_req == _resolve_package_requirement(d, pkg_name)
         IN ResolveStandaloneLibraries(d, Tail(names),
              IF pkg_req # <<>>
              THEN [packages |-> DictSet(acc.packages, pkg_name, pkg_req),
                    merged |-> collect_implies(acc.merged, LibraryManifest(pkg_name).implies)]
              ELSE acc)

ResolveLibraries(d) ==
    ResolveStandaloneLibraries(d, libraries(d),
        ResolveGroupLibraries(d, GroupPicks(library_groups(d)),
                              [packages |-> <<>>, merged |-> <<>>]))

\* steps 3 and 4 cut short at the first name the registry does not hold
ResolveServicesStopAtMissing(d, order) ==
    LET names == [i \in 1..Len(GroupPicks(service_groups(d))) |-> GroupPicks(service_groups(d))[i].name]
                 \o services(d)
    IN Flatten([i \in 1..Len(names) |->
                  IF \A j \in 1..i : names[j] \in registry.services
                  THEN _resolve_container_config(d, names[i], <<>>, order) ELSE <<>>])
\* steps 3 and 4: the configs of the group selections, then of the standalone services
ResolveServices(d, order) ==
    Flatten([i \in 1..Len(GroupPicks(service_groups(d))) |->
               _resolve_container_config(d, GroupPicks(service_groups(d))[i].name, <<>>, order)])
    \o Flatten([i \in 1..Len(services(d)) |->
               _resolve_container_config(d, services(d)[i], <<>>, order)])

\* merged_params[k]: the values of k over the params list, first occurrence only
RECURSIVE MergeParams(_, _)
MergeParams(params_list, acc) ==
    IF params_list = <<>> THEN acc
    ELSE LET p == Head(params_list)
             step[i \in 0..Len(p)] ==
                 IF i = 0 THEN acc
                 ELSE LET cur == IF DictHas(step[i - 1], p[i].k) THEN DictGet(step[i - 1], p[i].k) ELSE <<>>
                      IN DictSet(step[i - 1], p[i].k,
                                 IF SeqContains(cur, p[i].v) THEN cur ELSE Append(cur, p[i].v))
         IN MergeParams(Tail(params_list), step[Len(p)])

\* step 4.5: one config per "service:<name>" target, with the merged params
ResolveImplied(d, merged, order) ==
    Flatten([i \in 1..Len(merged) |->
               IF Len(merged[i].k) >= 2 /\ merged[i].k[1] = "service"
               THEN _resolve_container_config(d, merged[i].k[2], MergeParams(merged[i].v, <<>>), order)
               ELSE <<>>])

containers_to_sync(d, order) ==
    ResolveServices(d, order) \o ResolveImplied(d, ResolveLibraries(d).merged, order)

\* one requirement for every selection path, a library selected twice given twice
PackagesPerPath(d) ==
    LET names == [i \in 1..Len(GroupPicks(library_groups(d))) |-> GroupPicks(library_groups(d))[i].name]
                 \o libraries(d)
    IN SelectSeq([i \in 1..Len(names) |-> _resolve_package_requirement(d, names[i])],
                 LAMBDA req : req # <<>>)
\* list(packages_to_sync.values())
packages_to_sync(d) ==
    [i \in 1..Len(ResolveLibraries(d).packages) |-> ResolveLibraries(d).packages[i].v]

\* DockerComposeAdapter.generate_config: compose_data["services"].update(s) for every s
RECURSIVE generate_config(_, _)
generate_config(configs, acc) ==
    IF configs = <<>> THEN acc
    ELSE generate_config(Tail(configs), DictSet(acc, Head(configs).name, Head(configs)))

----------------------------------------------------------------------------
(* The validator *)

\* the attributes and properties HSMProjectManifest defines
ManifestAttributes ==
    {"path", "yaml", "data", "manager", "library_groups", "service_groups",
     "libraries", "services"}

\* Validator.check: the manifest-file error is collected, then the loop over
\* self.manifest.packages raises AttributeError because the manifest has no such
\* attribute; nothing that was collected is reported
check(d, onDisk) ==
    LET errors == IF ~onDisk THEN <<"Manifest file not found">> ELSE <<>>
    IN IF "packages" \notin ManifestAttributes
       THEN [raised |-> "AttributeError", collected |-> errors, reported |-> <<>>]
       ELSE [raised |-> IF errors # <<>> THEN "ValueError" ELSE "",
             collected |-> errors, reported |-> errors]

----------------------------------------------------------------------------
(* HSMCore: the commands *)

RegistryGroupExists(group_name) ==
    group_name \in registry.library_groups \cup registry.service_groups

\* the library_groups directory is looked up first
IsServiceGroup(group_name) == group_name \notin registry.library_groups

\* add_group_option on the in-memory manifest: [mem, disk, raised]
add_group_option(st, group_name, option) ==
    IF st.raised THEN st
    ELSE IF ~RegistryGroupExists(group_name) THEN [st EXCEPT !.raised = TRUE]
    ELSE LET mem == add_option_to_group(st.mem, group_name, option,
                                        RegistryGroup(group_name).strategy,
                                        IsServiceGroup(group_name))
         IN [mem |-> mem, disk |-> mem, raised |-> FALSE]

RECURSIVE AddOptions(_, _, _)
AddOptions(st, group_name, options) ==
    IF options = <<>> THEN st
    ELSE AddOptions(add_group_option(st, group_name, Head(options)), group_name, Tail(options))

\* the loop over selected_opt.implies: a list is added option by option, anything else
\* (a name, or a dict of params) is passed to add_group_option as it is, and a dict names
\* no option of any group
RECURSIVE HandleImplies(_, _)
HandleImplies(st, implies) ==
    IF implies = <<>> THEN st
    ELSE LET target == Head(implies).target
             config == Head(implies).config
             st2 == IF Len(target) < 2 THEN st
                    ELSE IF config.kind = "list" THEN AddOptions(st, target[2], config.options)
                    ELSE IF config.kind = "str" THEN add_group_option(st, target[2], config.options[1])
                    ELSE add_group_option(st, target[2], "{params}")
         IN HandleImplies(st2, Tail(implies))

\* the registry group's option named option, as a sequence of zero or one option
SelectedOption(group_name, option) ==
    SelectSeq(RegistryGroup(group_name).options, LAMBDA o : o.name = option)

\* HSMCore.add_group: [mem, disk, raised] after the command
add_group(d, group_name, option) ==
    IF ~RegistryGroupExists(group_name) THEN [mem |-> d, disk |-> d, raised |-> TRUE]
    ELSE LET mem == set_group(d, group_name, StrSelection(option),
                              RegistryGroup(group_name).strategy, IsServiceGroup(group_name))
             selected_opt == SelectedOption(group_name, option)
             st == HandleImplies([mem |-> mem, disk |-> d, raised |-> FALSE],
                                 IF selected_opt # <<>> THEN selected_opt[1].implies ELSE <<>>)
         IN IF st.raised THEN st ELSE [st EXCEPT !.disk = st.mem]

RECURSIVE SetModes(_, _, _)
SetModes(d, names, mode) ==
    IF names = <<>> THEN d
    ELSE SetModes(set_mode(d, Head(names), mode), Tail(names), mode)

GroupNames(groups) == [i \in 1..Len(groups) |-> groups[i].name]

set_global_mode(d, mode) ==
    LET d1 == SetModes(d, libraries(d), mode)
        d2 == SetModes(d1, GroupNames(library_groups(d1)), mode)
        d3 == SetModes(d2, GroupNames(service_groups(d2)), mode)
    IN SetModes(d3, services(d3), mode)

\* a command that saved the manifest d
Saved(d) ==
    /\ data' = d
    /\ manifestOnDisk' = TRUE
    /\ inSync' = (inSync /\ d = data)
    /\ UNCHANGED <<outVars, checkResult>>

AddLibrary(name) == Saved(add_library(data, name)) /\ UNCHANGED <<globalMode, registry>>

AddService(name) == Saved(add_service(data, name)) /\ UNCHANGED <<globalMode, registry>>

RemoveLibrary(name) == Saved(remove_library(data, name)) /\ UNCHANGED <<globalMode, registry>>

RemoveService(name) == Saved(remove_service(data, name)) /\ UNCHANGED <<globalMode, registry>>

RemoveGroupOption(group_name, option) ==
    Saved(remove_from_group(data, group_name, option)) /\ UNCHANGED <<globalMode, registry>>

RemoveGroup(group_name) == Saved(remove_group(data, group_name)) /\ UNCHANGED <<globalMode, registry>>

SetMode(name, mode) == Saved(set_mode(data, name, mode)) /\ UNCHANGED <<globalMode, registry>>

SetGlobalMode(mode) ==
    Saved(set_global_mode(data, mode)) /\ globalMode' = mode /\ UNCHANGED registry

\* a command that raised before its first save leaves hsm.yaml as it was
AddGroup(group_name, option) ==
    LET st == add_group(data, group_name, option)
    IN /\ data' = st.disk
       /\ manifestOnDisk' = (manifestOnDisk \/ ~st.raised \/ st.disk # data)
       /\ inSync' = (inSync /\ st.disk = data)
       /\ UNCHANGED <<outVars, checkResult, globalMode, registry>>

AddGroupOption(group_name, option) ==
    LET st == add_group_option([mem |-> data, disk |-> data, raised |-> FALSE], group_name, option)
    IN /\ data' = st.disk
       /\ manifestOnDisk' = (manifestOnDisk \/ ~st.raised)
       /\ inSync' = (inSync /\ st.disk = data)
       /\ UNCHANGED <<outVars, checkResult, globalMode, registry>>

\* hsm.yaml edited by hand: a profile tag put on a service group of the manifest
SetGroupProfile(group_name, tag) ==
    /\ HasGroup(data.svcGroups, group_name)
    /\ manifestOnDisk
    /\ data' = [data EXCEPT !.svcGroups[GroupIndex(data.svcGroups, group_name)].profile = tag]
    /\ inSync' = (inSync /\ data' = data)
    /\ UNCHANGED <<manifestOnDisk, outVars, checkResult, globalMode, registry>>

\* hsm.yaml edited by hand: a profile tag put on a standalone service entry
SetServiceProfile(name, tag) ==
    /\ EntryIndex(data.svcStandalone, name) # 0
    /\ manifestOnDisk
    /\ data' = [data EXCEPT !.svcStandalone[EntryIndex(data.svcStandalone, name)] =
                                [@ EXCEPT !.form = "dict", !.profile = tag]]
    /\ inSync' = (inSync /\ data' = data)
    /\ UNCHANGED <<manifestOnDisk, outVars, checkResult, globalMode, registry>>

\* a sync that drops from hsm.yaml the standalone libraries that yield no requirement
SyncPruning(order, uvOk) ==
    LET packages == packages_to_sync(data)
        containers == containers_to_sync(data, order)
        uvFailed == packages # <<>> /\ ~uvOk
    IN /\ packagesHanded' = packages
       /\ pyprojectDeps' = IF packages # <<>> THEN packages ELSE pyprojectDeps
       /\ containersHanded' = IF uvFailed THEN <<>> ELSE containers
       /\ composeFile' = IF uvFailed \/ containers = <<>> THEN composeFile
                         ELSE generate_config(containers, <<>>)
       /\ syncResult' = IF uvFailed THEN "raised" ELSE "ok"
       /\ inSync' = ~uvFailed
       /\ data' = [data EXCEPT !.libStandalone =
                      SelectSeq(@, LAMBDA e : _resolve_package_requirement(data, e.name) # <<>>)]
       /\ UNCHANGED <<manifestOnDisk, checkResult, globalMode, registry>>
\* hsm sync.  order: the hash order of the process; uvOk: whether `uv sync` succeeds
Sync(order, uvOk) ==
    LET packages == packages_to_sync(data)
        containers == containers_to_sync(data, order)
        uvFailed == packages # <<>> /\ ~uvOk
    IN /\ packagesHanded' = packages
       /\ pyprojectDeps' = IF packages # <<>> THEN packages ELSE pyprojectDeps
       /\ containersHanded' = IF uvFailed THEN <<>> ELSE containers
       /\ composeFile' = IF uvFailed \/ containers = <<>> THEN composeFile
                         ELSE generate_config(containers, <<>>)
       /\ syncResult' = IF uvFailed THEN "raised" ELSE "ok"
       /\ inSync' = ~uvFailed
       /\ UNCHANGED <<data, manifestOnDisk, checkResult, globalMode, registry>>

\* hsm check
Check ==
    /\ checkResult' = check(data, manifestOnDisk)
    /\ UNCHANGED <<data, manifestOnDisk, outVars, inSync, globalMode, registry>>

----------------------------------------------------------------------------
(* RegistryManager: the commands on hsm-registry.  A file holds the manifest the
   fixtures give for its name; the directories are sets of file stems. *)

\* the characters of a file stem
Stem(name) ==
    CASE name = "draft" -> <<"d", "r", "a", "f", "t">>
      [] name = "web" -> <<"w", "e", "b">>
      [] name = "backend" -> <<"b", "a", "c", "k", "e", "n", "d">>
      [] name = "db" -> <<"d", "b">>
      [] OTHER -> <<"g", "h", "o", "s", "t">>

\* str.lower, character by character
Lower(chars) ==
    [i \in 1..Len(chars) |->
       CASE chars[i] = "D" -> "d"
         [] chars[i] = "B" -> "b"
         [] chars[i] = "W" -> "w"
         [] OTHER -> chars[i]]

\* query in stem
IsSubstring(query, stem) ==
    \E i \in 0..Len(stem) :
        i + Len(query) <= Len(stem) /\ SubSeq(stem, i + 1, i + Len(query)) = query

\* RegistryManager.search; the result lists as sets (glob order is the file system's)
search(reg, query) ==
    LET hits(category) == {n \in reg[category] : IsSubstring(Lower(query), Lower(Stem(n)))}
    IN [libraries |-> hits("libraries"), services |-> hits("services"),
        groups |-> hits("library_groups") \cup hits("service_groups")]

RegistryCategories == <<"libraries", "services", "library_groups", "service_groups">>

\* RegistryManager.get_details: the file of the first category that holds name
get_details(reg, name) ==
    IF \E i \in 1..Len(RegistryCategories) : name \in reg[RegistryCategories[i]]
    THEN [found |-> TRUE,
          category |-> RegistryCategories[CHOOSE i \in 1..Len(RegistryCategories) :
                          /\ name \in reg[RegistryCategories[i]]
                          /\ \A j \in 1..(i - 1) : name \notin reg[RegistryCategories[j]]]]
    ELSE [found |-> FALSE, category |-> "None"]

registry_add_library(reg, name) == [reg EXCEPT !.libraries = @ \cup {name}]

registry_add_service(reg, name) == [reg EXCEPT !.services = @ \cup {name}]

registry_add_group(reg, name, group_type) ==
    LET category == IF group_type = "library_group" THEN "library_groups" ELSE "service_group"
    IN [reg EXCEPT ![category] = @ \cup {name}]

\* RegistryManager.remove: [reg, raised]
registry_remove(reg, name) ==
    [reg |-> [c \in DOMAIN reg |->
                IF \E i \in 1..Len(RegistryCategories) : RegistryCategories[i] = c
                THEN reg[c] \ {name} ELSE reg[c]],
     raised |-> ~\E i \in 1..Len(RegistryCategories) : name \in reg[RegistryCategories[i]]]

\* a registry command leaves the project alone
RegistryBecomes(reg) ==
    /\ registry' = reg
    /\ inSync' = (inSync /\ reg = registry)
    /\ UNCHANGED <<data, manifestOnDisk, outVars, checkResult, globalMode>>

RegistryAddLibrary(name) == RegistryBecomes(registry_add_library(registry, name))

RegistryAddService(name) == RegistryBecomes(registry_add_service(registry, name))

RegistryAddGroup(name, group_type) == RegistryBecomes(registry_add_group(registry, name, group_type))

RegistryRemove(name) == RegistryBecomes(registry_remove(registry, name).reg)

NoCheck == [raised |-> "", collected |-> <<>>, reported |-> <<>>]

Init ==
    /\ data = _load
    /\ manifestOnDisk = FALSE
    /\ syncResult = "none"
    /\ packagesHanded = <<>>
    /\ containersHanded = <<>>
    /\ pyprojectDeps = <<>>
    /\ composeFile = <<>>
    /\ checkResult = NoCheck
    /\ inSync = FALSE
    /\ globalMode = "unset"
    /\ registry = RegistryFiles

Modes == {"dev", "prod"}

ProfileTags == {"external-prod", "local"}

\* the whole system: every command, with every name of the registry and one name
\* ("ghost") that the registry does not hold
ComponentInputs == RegistryLibraries \cup RegistryServices \cup {"ghost"}

GroupInputs == RegistryLibraryGroups \cup RegistryServiceGroups \cup {"ghost"}

Next ==
    \/ \E name \in ComponentInputs : AddLibrary(name)
    \/ \E name \in ComponentInputs : RemoveLibrary(name)
    \/ \E name \in ComponentInputs : AddService(name)
    \/ \E name \in ComponentInputs : RemoveService(name)
    \/ \E g \in GroupInputs, o \in ComponentInputs : AddGroup(g, o)
    \/ \E g \in GroupInputs, o \in ComponentInputs : AddGroupOption(g, o)
    \/ \E g \in GroupInputs, o \in ComponentInputs : RemoveGroupOption(g, o)
    \/ \E g \in GroupInputs : RemoveGroup(g)
    \/ \E name \in ComponentInputs \cup GroupInputs, mode \in Modes : SetMode(name, mode)
    \/ \E mode \in Modes : SetGlobalMode(mode)
    \/ \E g \in GroupInputs, tag \in ProfileTags : SetGroupProfile(g, tag)
    \/ \E name \in ComponentInputs, tag \in ProfileTags : SetServiceProfile(name, tag)
    \/ \E order \in HashOrders, uvOk \in BOOLEAN : Sync(order, uvOk)
    \/ Check
    \/ \E name \in ComponentInputs : RegistryAddLibrary(name)
    \/ \E name \in ComponentInputs : RegistryAddService(name)
    \/ \E g \in GroupInputs : RegistryAddGroup(g, RegistryGroup(g).type)
    \/ \E name \in ComponentInputs \cup GroupInputs : RegistryRemove(name)

Spec == Init /\ [][Next]_vars

----------------------------------------------------------------------------
(* Runs of the system over a few names each *)

\* libraries that imply a service which is also selected directly and through a group
SyncNext ==
    \/ \E name \in {"auth", "stats"} : AddLibrary(name)
    \/ AddService("pg")
    \/ AddGroup("db", "pg")
    \/ SetMode("db", "dev")
    \/ \E order \in HashOrders, uvOk \in BOOLEAN : Sync(order, uvOk)

SyncSpec == Init /\ [][SyncNext]_vars

\* the mode commands on a library and a service that are standalone and group-selected
ModeNext ==
    \/ AddLibrary("auth")
    \/ RemoveLibrary("auth")
    \/ \E sel \in {<<"backend", "auth">>, <<"db", "pg">>} : AddGroup(sel[1], sel[2])
    \/ RemoveGroup("backend")
    \/ \E name \in {"auth", "pg", "backend"}, mode \in Modes : SetMode(name, mode)
    \/ \E mode \in Modes : SetGlobalMode(mode)

ModeSpec == Init /\ [][ModeNext]_vars

\* services selected through groups that carry deployment profile tags
ProfileNext ==
    \/ AddService("pg")
    \/ \E sel \in {<<"db", "pg">>, <<"db", "web">>} : AddGroup(sel[1], sel[2])
    \/ \E sel \in {<<"infra", "pg">>, <<"infra", "web">>} : AddGroupOption(sel[1], sel[2])
    \/ \E g \in {"db", "infra"}, tag \in ProfileTags : SetGroupProfile(g, tag)
    \/ SetServiceProfile("pg", "external-prod")
    \/ \E order \in HashOrders : Sync(order, TRUE)

ProfileSpec == Init /\ [][ProfileNext]_vars

\* validation of selections with names the registry does not hold
CheckNext ==
    \/ \E name \in {"auth", "stats", "ghost"} : AddLibrary(name)
    \/ \E name \in {"pg", "ghost"} : AddService(name)
    \/ \E name \in {"auth", "ghost"} : RemoveLibrary(name)
    \/ AddGroup("db", "pg")
    \/ RemoveGroup("db")
    \/ Check

CheckSpec == Init /\ [][CheckNext]_vars

\* group selections, among them a library of the registry that is no option of the group
\* (stats in backend) and a name the registry does not hold
GroupNext ==
    \/ \E o \in {"auth", "stats", "ghost"} : AddGroup("backend", o)
    \/ \E o \in {"auth", "stats"} : AddGroupOption("backend", o)
    \/ AddGroup("db", "web")
    \/ RemoveGroupOption("backend", "auth")
    \/ RemoveGroup("db")
    \/ AddLibrary("auth")
    \/ Check

GroupSpec == Init /\ [][GroupNext]_vars

\* selections with names the registry does not hold, next to a library with two source
\* variants that implies a library, a service and a service the registry does not hold
ResolveNext ==
    \/ \E name \in {"billing", "ghost"} : AddLibrary(name)
    \/ \E name \in {"web", "ghost"} : AddService(name)
    \/ AddGroup("db", "ghost")
    \/ \E mode \in Modes : SetMode("billing", mode)
    \/ \E order \in HashOrders, uvOk \in BOOLEAN : Sync(order, uvOk)

ResolveSpec == Init /\ [][ResolveNext]_vars

\* libraries selected as standalone entries and through a multi-selection group
UniqueNext ==
    \/ \E name \in {"auth", "billing"} : AddLibrary(name)
    \/ AddGroup("backend", "auth")
    \/ \E o \in {"auth", "billing"} : AddGroupOption("backend", o)
    \/ RemoveGroupOption("backend", "auth")
    \/ \E order \in HashOrders, uvOk \in BOOLEAN : Sync(order, uvOk)

UniqueSpec == Init /\ [][UniqueNext]_vars

\* the mode commands on components with two source variants (billing, pg) and with a dev
\* variant only (draft)
VariantNext ==
    \/ \E name \in {"billing", "draft"} : AddLibrary(name)
    \/ AddService("pg")
    \/ \E name \in {"billing", "pg"} : SetMode(name, "dev")
    \/ \E order \in HashOrders, uvOk \in BOOLEAN : Sync(order, uvOk)

VariantSpec == Init /\ [][VariantNext]_vars

----------------------------------------------------------------------------
(* The mode resolver: claims C3 to C6 *)

ComponentNames == RegistryLibraries \cup RegistryServices

AllGroups(d) == d.libGroups \o d.svcGroups

AllEntries(d) == d.libStandalone \o d.svcStandalone

\* name is a standalone entry that records the mode explicitly
StandaloneModeIs(d, name, mode) ==
    \E i \in 1..Len(AllEntries(d)) :
        AllEntries(d)[i].name = name /\ AllEntries(d)[i].mode = mode

\* name is the selection, or in the selection, of a group that records the mode
GroupModeIs(d, name, mode) ==
    \E i \in 1..Len(AllGroups(d)) :
        SelectionHas(AllGroups(d)[i].selection, name) /\ AllGroups(d)[i].mode = mode

\* some place of the manifest records a mode for name
HasOwnMode(d, name) ==
    \/ \E mode \in Modes : StandaloneModeIs(d, name, mode) \/ GroupModeIs(d, name, mode)
    \/ DictHas(d.modes, name)

\* C3: Mode precedence.  A name that is a standalone entry with mode dev and also
\* selected in a group whose mode is prod resolves to dev, and a name with no mode
\* recorded anywhere resolves to prod.
C3_ModePrecedence ==
    \A name \in ComponentNames :
        /\ (StandaloneModeIs(data, name, "dev") /\ GroupModeIs(data, name, "prod"))
              => get_mode(data, name) = "dev"
        /\ ~HasOwnMode(data, name) => get_mode(data, name) = "prod"

\* the places where name appears, in the order get_mode looks at them, with the mode
\* each records ("none": no explicit mode)
RECURSIVE SelectingModes(_, _)
SelectingModes(groups, name) ==
    IF groups = <<>> THEN <<>>
    ELSE (IF SelectionHas(Head(groups).selection, name) THEN <<Head(groups).mode>> ELSE <<>>)
         \o SelectingModes(Tail(groups), name)

RECURSIVE EntryModes(_, _)
EntryModes(entries, name) ==
    IF entries = <<>> THEN <<>>
    ELSE (IF Head(entries).name = name THEN <<Head(entries).mode>> ELSE <<>>)
         \o EntryModes(Tail(entries), name)

Locations(d, name) ==
    SelectingModes(d.libGroups, name) \o EntryModes(d.libStandalone, name)
      \o SelectingModes(d.svcGroups, name) \o EntryModes(d.svcStandalone, name)

\* C4: Mode resolution checks every location.  When the first place where a name
\* appears records no mode and another place does, get_mode returns a mode recorded
\* at one of the other places.
C4_EveryLocationChecked ==
    \A name \in ComponentNames :
        LET locs == Locations(data, name)
        IN (Len(locs) >= 2 /\ locs[1] = "none" /\ \E j \in 2..Len(locs) : locs[j] # "none")
              => \E j \in 2..Len(locs) : locs[j] # "none" /\ get_mode(data, name) = locs[j]

\* name is selected in a group and is neither a group of the manifest nor a standalone entry
GroupSelectedOnly(d, name) ==
    /\ \E i \in 1..Len(AllGroups(d)) : SelectionHas(AllGroups(d)[i].selection, name)
    /\ ~HasGroup(AllGroups(d), name)
    /\ EntryIndex(AllEntries(d), name) = 0

\* every artifact a sync of d yields for name comes from the dev variant of name
DevMaterialized(d, name) ==
    /\ name \in RegistryLibraries =>
          _resolve_package_requirement(d, name) =
             _resolve_package_requirement([_load EXCEPT !.modes = <<[k |-> name, v |-> "dev"]>>], name)
    /\ name \in RegistryServices =>
          \A order \in HashOrders :
             \A i \in 1..Len(containers_to_sync(d, order)) :
                containers_to_sync(d, order)[i].name = name =>
                   /\ containers_to_sync(d, order)[i].dockerfile = ServiceManifest(name).sources.dev.dockerfile
                   /\ containers_to_sync(d, order)[i].build =
                         <<project_root, "/", ServiceManifest(name).sources.dev.path>>

\* C5: set_mode/get_mode round trip.  After set_mode(name, dev) on a component that
\* is only selected through a group, get_mode(name) is dev and a sync materializes
\* the component from its dev variant.
C5_SetModeRoundTrip ==
    [][\A name \in ComponentNames :
          (GroupSelectedOnly(data, name) /\ SetMode(name, "dev"))
             => (get_mode(data', name) = "dev" /\ DevMaterialized(data', name))]_vars

\* the names a sync of d deals with: the standalone entries, the group selections and
\* the services the resolved libraries imply
ImpliedServices(d) ==
    {ResolveLibraries(d).merged[i].k[2] : i \in
        {j \in 1..Len(ResolveLibraries(d).merged) : ResolveLibraries(d).merged[j].k[1] = "service"}}

SelectedNames(d) ==
    {AllEntries(d)[i].name : i \in 1..Len(AllEntries(d))}
      \cup {GroupPicks(AllGroups(d))[i].name : i \in 1..Len(GroupPicks(AllGroups(d)))}
      \cup ImpliedServices(d)

\* C6: Global default mode.  Once set_global_mode(m) ran, every selected component
\* without a mode of its own resolves to m, also one added later and one that is
\* selected by implication only.
C6_GlobalDefaultMode ==
    globalMode # "unset" =>
        \A name \in SelectedNames(data) :
            ~HasOwnMode(data, name) => get_mode(data, name) = globalMode

----------------------------------------------------------------------------
(* The synchronisation engine: claims C1, C2 and C7 to C9 *)

\* the configs of the last sync that are for the service name
HandedFor(name) == SelectSeq(containersHanded, LAMBDA c : c.name = name)

\* the implications of the selected libraries in selection order (the group selections,
\* then the standalone entries): [by, target, params]
Contributions(d) ==
    Flatten([i \in 1..Len(GroupPicks(d.libGroups)) |->
               LET pick == GroupPicks(d.libGroups)[i]
                   implies == OptionImplies(pick.group, pick.name)
               IN [j \in 1..Len(implies) |->
                     [by |-> pick.name, target |-> implies[j].target,
                      params |-> implies[j].config.params]]])
    \o Flatten([i \in 1..Len(libraries(d)) |->
               LET implies == IF libraries(d)[i] \in RegistryLibraries
                              THEN LibraryManifest(libraries(d)[i]).implies ELSE <<>>
               IN [j \in 1..Len(implies) |->
                     [by |-> libraries(d)[i], target |-> implies[j].target,
                      params |-> implies[j].config.params]]])

\* the values the selected components give the key of the service, in selection order
RECURSIVE ImpliedValues(_, _, _)
ImpliedValues(contributions, name, key) ==
    IF contributions = <<>> THEN <<>>
    ELSE (IF Head(contributions).target = <<"service", name>> /\ DictHas(Head(contributions).params, key)
          THEN <<DictGet(Head(contributions).params, key)>> ELSE <<>>)
         \o ImpliedValues(Tail(contributions), name, key)

\* two different selected components give the key of the service a value
TwoImply(d, name, key) ==
    \E i, j \in 1..Len(Contributions(d)) :
        /\ Contributions(d)[i].by # Contributions(d)[j].by
        /\ Contributions(d)[i].target = <<"service", name>>
        /\ Contributions(d)[j].target = <<"service", name>>
        /\ DictHas(Contributions(d)[i].params, key)
        /\ DictHas(Contributions(d)[j].params, key)

ParamKeys == {"db_name"}

\* the env of the definition, the source variant's values over the common ones, before
\* any placeholder is replaced
DeclaredEnvValue(d, name, key) ==
    LET manifest == ServiceManifest(name)
        source == EffectiveSource(manifest.sources, get_mode(d, name))
    IN IF DictHas(source.env, key) THEN DictGet(source.env, key) ELSE DictGet(manifest.env, key)

DeclaredEnvKeys(d, name) ==
    LET manifest == ServiceManifest(name)
        source == EffectiveSource(manifest.sources, get_mode(d, name))
    IN SeqToSet(DictKeys(manifest.env)) \cup SeqToSet(DictKeys(source.env))

\* the config carries, wherever the definition has the placeholder of the key, the
\* comma-joined values
CarriesValues(d, cfg, key, values) ==
    /\ SeqToSet(DictKeys(cfg.environment)) = DeclaredEnvKeys(d, cfg.name)
    /\ \A k \in DeclaredEnvKeys(d, cfg.name) :
          Occurs(DeclaredEnvValue(d, cfg.name, k), Placeholder(key)) =>
             DictGet(cfg.environment, k) =
                Replace(DeclaredEnvValue(d, cfg.name, k), Placeholder(key), Join(<<",">>, values))

\* C1: Union-of-parameters law.  When two selected components imply the same service
\* with a value each for the same key, a sync yields exactly one config for the service
\* and it carries both values, without repetition and in first-seen order.
C1_UnionOfParameters ==
    (syncResult = "ok" /\ inSync) =>
        \A name \in RegistryServices, key \in ParamKeys :
            TwoImply(data, name, key) =>
                /\ Len(HandedFor(name)) = 1
                /\ CarriesValues(data, HandedFor(name)[1], key,
                                 DedupFirst(ImpliedValues(Contributions(data), name, key)))

\* the service is selected as a standalone entry, through a group and by implication
SelectedThreeWays(d, name) ==
    /\ SeqContains(services(d), name)
    /\ \E i \in 1..Len(d.svcGroups) : SelectionHas(d.svcGroups[i].selection, name)
    /\ \E i \in 1..Len(Contributions(d)) : Contributions(d)[i].target = <<"service", name>>

\* C2: At-most-once materialization.  A service selected as a standalone entry, through
\* a group and by implication at once is handed to the container adapter as exactly one
\* config, which carries the merged implication parameters.
C2_AtMostOnce ==
    (syncResult = "ok" /\ inSync) =>
        \A name \in RegistryServices :
            SelectedThreeWays(data, name) =>
                /\ Len(HandedFor(name)) = 1
                /\ \A key \in ParamKeys :
                      CarriesValues(data, HandedFor(name)[1], key,
                                    DedupFirst(ImpliedValues(Contributions(data), name, key)))

\* the definition of the service declares the profile tag with mode external
DeclaredExternal(name, tag) ==
    /\ name \in RegistryServices
    /\ DictHas(ServiceManifest(name).deployment_profiles, tag)
    /\ DictGet(ServiceManifest(name).deployment_profiles, tag) = "external"

\* a group that selects the service, or a standalone entry of it, carries a tag that
\* the definition declares external
OwnerTaggedExternal(d, name) ==
    \/ \E i \in 1..Len(d.svcGroups) :
          SelectionHas(d.svcGroups[i].selection, name) /\ DeclaredExternal(name, d.svcGroups[i].profile)
    \/ \E i \in 1..Len(d.svcStandalone) :
          d.svcStandalone[i].name = name /\ DeclaredExternal(name, d.svcStandalone[i].profile)

\* C7: External-profile exclusion.  A selected service whose owning group or standalone
\* entry carries a tag its definition declares external is in no config of the sync,
\* and the other selected services of the pass are.
C7_ExternalExcluded ==
    (syncResult = "ok" /\ inSync) =>
        \A name \in SelectedNames(data) \cap RegistryServices :
            IF OwnerTaggedExternal(data, name)
            THEN HandedFor(name) = <<>>
            ELSE HandedFor(name) # <<>>

NoDuplicates(s) == \A i, j \in 1..Len(s) : s[i] = s[j] => i = j

UnionOf(xs, common, variant) ==
    NoDuplicates(xs) /\ SeqToSet(xs) = SeqToSet(common) \cup SeqToSet(variant)

\* C8: Per-field merge rules.  ports, volumes and aliases of a config are the set union
\* of the common list and the chosen variant's list; env is the common env with the
\* variant's value for every key the variant has.
C8_FieldMergeRules ==
    (syncResult = "ok" /\ inSync) =>
        \A i \in 1..Len(containersHanded) :
            LET cfg == containersHanded[i]
                manifest == ServiceManifest(cfg.name)
                source == EffectiveSource(manifest.sources, get_mode(data, cfg.name))
            IN /\ UnionOf(cfg.ports, manifest.ports, source.ports)
               /\ UnionOf(cfg.volumes, manifest.volumes, source.volumes)
               /\ UnionOf(cfg.aliases, manifest.network_aliases, source.network_aliases)
               /\ SeqToSet(DictKeys(cfg.environment)) = DeclaredEnvKeys(data, cfg.name)
               /\ NoDuplicates(DictKeys(cfg.environment))
               /\ \A k \in DeclaredEnvKeys(data, cfg.name) :
                     (\A key \in ParamKeys : ~Occurs(DeclaredEnvValue(data, cfg.name, k), Placeholder(key)))
                        => DictGet(cfg.environment, k) = DeclaredEnvValue(data, cfg.name, k)

\* a sync handed over a config whose ports come from both lists and whose env key A,
\* which both the common env and the variant define, has the variant's value
C8_Witness ==
    /\ syncResult = "ok" /\ inSync
    /\ \E i \in 1..Len(containersHanded) :
          /\ containersHanded[i].name = "pg"
          /\ SeqToSet(containersHanded[i].ports) = {"80:80", "443:443"}
          /\ DictGet(containersHanded[i].environment, "A") = <<"2">>

\* C9: Idempotence.  A second sync over an unchanged manifest and registry hands over
\* the same requirement list and the same configs, element order included.
C9_Idempotence ==
    [][(inSync /\ syncResult = "ok" /\ \E order \in HashOrders : Sync(order, TRUE))
          => (packagesHanded' = packagesHanded /\ containersHanded' = containersHanded)]_vars

----------------------------------------------------------------------------
(* The validator: claim C10 *)

CountIn(s, Bad(_)) == Cardinality({i \in 1..Len(s) : Bad(s[i])})

\* the references of the manifest that the registry does not hold
ReferentialViolations(d) ==
    CountIn(d.libStandalone, LAMBDA e : e.name \notin RegistryLibraries)
    + CountIn(d.svcStandalone, LAMBDA e : e.name \notin RegistryServices)
    + CountIn(d.libGroups, LAMBDA g : g.name \notin RegistryLibraryGroups)
    + CountIn(d.svcGroups, LAMBDA g : g.name \notin RegistryServiceGroups)
    + CountIn(GroupPicks(d.libGroups), LAMBDA p : p.name \notin RegistryLibraries)
    + CountIn(GroupPicks(d.svcGroups), LAMBDA p : p.name \notin RegistryServices)

\* C10: Validation aggregation.  check() on a manifest with n referential violations
\* reports exactly n errors in one failure.
C10_ValidationAggregation ==
    [][Check =>
          LET n == ReferentialViolations(data)
          IN n > 0 => (checkResult'.raised = "ValueError" /\ Len(checkResult'.reported) = n)]_vars

----------------------------------------------------------------------------
(* The validator and the group commands: claims C11 to C13 *)

\* C11: Validation passes on a consistent project.  With hsm.yaml on disk and every
\* standalone entry, group and group selection in the registry, check() reports no
\* error; without hsm.yaml, check() fails.
C11_ConsistentProjectPasses ==
    [][Check =>
          /\ (manifestOnDisk /\ ReferentialViolations(data) = 0) => checkResult'.raised = ""
          /\ ~manifestOnDisk => checkResult'.raised # ""]_vars

OptionNames(group_name) ==
    {RegistryGroup(group_name).options[i].name : i \in 1..Len(RegistryGroup(group_name).options)}

\* the selections of the registry groups of the manifest that are no option of their group
NonMembers(d) ==
    {p \in SeqToSet(GroupPicks(d.libGroups)) \cup SeqToSet(GroupPicks(d.svcGroups)) :
        RegistryGroupExists(p.group) /\ p.name \notin OptionNames(p.group)}

\* C12: Validator membership check.  check() reports an error for a group selection that
\* is no option of the registry group, also when a component of that name is in the
\* registry.
C12_MembershipChecked ==
    [][Check =>
          ((\E p \in NonMembers(data) : p.name \in RegistryLibraries \cup RegistryServices)
              => (checkResult'.raised = "ValueError" /\ checkResult'.reported # <<>>))]_vars

\* every selection the manifest stores for the group is an option of the registry group
SelectionsAreOptions(d, group_name) ==
    \A p \in SeqToSet(GroupPicks(d.libGroups)) \cup SeqToSet(GroupPicks(d.svcGroups)) :
        p.group = group_name => p.name \in OptionNames(group_name)

\* C13: Group selection invariant at the mutation boundary.  After a successful
\* add_group or add_group_option on a group, every selection stored for the group is an
\* option of the registry group.
C13_SelectionIsOption ==
    [][\A g \in RegistryLibraryGroups \cup RegistryServiceGroups, o \in ComponentInputs :
          \/ AddGroup(g, o) /\ ~add_group(data, g, o).raised
          \/ AddGroupOption(g, o)
                /\ ~add_group_option([mem |-> data, disk |-> data, raised |-> FALSE], g, o).raised
          => SelectionsAreOptions(data', g)]_vars

----------------------------------------------------------------------------
(* Resolution: claims C14 to C19 *)

\* the requirement list of the last sync has a requirement for the library
Required(name) == \E i \in 1..Len(packagesHanded) : packagesHanded[i][1] = name

\* the libraries and the services the manifest selects, standalone or through a group
SelectedLibraries(d) ==
    SeqToSet(libraries(d)) \cup {p.name : p \in SeqToSet(GroupPicks(d.libGroups))}

SelectedServices(d) ==
    SeqToSet(services(d)) \cup {p.name : p \in SeqToSet(GroupPicks(d.svcGroups))}

\* the services that the implies of the selected libraries name
ImpliedServiceTargets(d) ==
    {Contributions(d)[i].target[2] : i \in {j \in 1..Len(Contributions(d)) :
                                              Contributions(d)[j].target[1] = "service"}}

\* the definition of the library gives the mode's variant a source sync translates
HasRequirementSource(d, name) ==
    /\ name \in RegistryLibraries
    /\ EffectiveSource(LibraryManifest(name).sources, get_mode(d, name)).type \in {"git", "local"}

\* the definition of the service gives the mode's variant a source, and no profile
\* excludes the service
HasServiceSource(d, name) ==
    /\ name \in RegistryServices
    /\ IsSet(EffectiveSource(ServiceManifest(name).sources, get_mode(d, name)))
    /\ ~OwnerTaggedExternal(d, name)

\* C14: Best-effort resolution.  sync raises only when the package manager fails, never
\* for a selected or implied component the registry does not hold; that component is
\* in neither output and the other selected components are materialized.
C14_BestEffort ==
    /\ syncResult = "raised" => packagesHanded # <<>>
    /\ (syncResult = "ok" /\ inSync) =>
          /\ \A name \in SelectedLibraries(data) :
                /\ name \notin RegistryLibraries => ~Required(name)
                /\ HasRequirementSource(data, name) => Required(name)
          /\ \A name \in SelectedServices(data) \cup ImpliedServiceTargets(data) :
                /\ name \notin RegistryServices => HandedFor(name) = <<>>
                /\ HasServiceSource(data, name) => HandedFor(name) # <<>>

\* a sync succeeded with a library, a service and an implied service that the registry
\* does not hold, and the library and the services it holds are in the outputs
C14_Witness ==
    /\ syncResult = "ok" /\ inSync
    /\ SeqContains(libraries(data), "ghost") /\ SeqContains(services(data), "ghost")
    /\ "ghost" \in ImpliedServiceTargets(data)
    /\ ~Required("ghost") /\ HandedFor("ghost") = <<>>
    /\ Required("billing") /\ HandedFor("web") # <<>> /\ HandedFor("pg") # <<>>

\* the names of the given kind that the implies name
TargetsOf(implies, kind) ==
    {implies[i].target[2] : i \in {j \in 1..Len(implies) : implies[j].target[1] = kind}}

\* the names of the given kind that the definitions of the libraries imply
ImpliedBy(names, kind) ==
    UNION {TargetsOf(LibraryManifest(n).implies, kind) : n \in names \cap RegistryLibraries}

\* the least set of libraries that holds names and the libraries its members imply
RECURSIVE ImpliesClosure(_)
ImpliesClosure(names) ==
    IF ImpliedBy(names, "library") \subseteq names THEN names
    ELSE ImpliesClosure(names \cup ImpliedBy(names, "library"))

ReachableLibraries(d) ==
    ImpliesClosure(SelectedLibraries(d)
                   \cup {Contributions(d)[i].target[2] :
                           i \in {j \in 1..Len(Contributions(d)) :
                                    Contributions(d)[j].target[1] = "library"}})

ReachableServices(d) ==
    SelectedServices(d) \cup ImpliedServiceTargets(d) \cup ImpliedBy(ReachableLibraries(d), "service")

\* C15: Implication closure.  Every component reachable from the direct selections
\* through one or more implies edges, to a library or to a service, is in the output of
\* its kind.
C15_ImplicationClosure ==
    (syncResult = "ok" /\ inSync) =>
        /\ \A name \in ReachableLibraries(data) : HasRequirementSource(data, name) => Required(name)
        /\ \A name \in ReachableServices(data) : HasServiceSource(data, name) => HandedFor(name) # <<>>

\* the generated compose file is the one of the last sync
ComposeFresh == syncResult = "ok" /\ inSync /\ containersHanded # <<>>

\* C16: Placeholder substitution is complete.  In every service spec of the generated
\* compose file, each env value with the placeholder of a key has it replaced by the
\* comma-joined values the selected components gave the key, however the service is
\* selected, and by nothing when no component gave a value.
C16_SubstitutionComplete ==
    ComposeFresh =>
        \A i \in 1..Len(composeFile), key \in ParamKeys :
            CarriesValues(data, composeFile[i].v, key,
                          DedupFirst(ImpliedValues(Contributions(data), composeFile[i].k, key)))

\* the ${VAR} strings of the definitions that are left to the container engine
AmbientTokens == {"${NEO4J_PROD_PASSWORD}"}

AmbientPorts == {"${NEO4J_PROD_PORT}:7474"}

DeclaredPorts(d, name) ==
    SeqToSet(ServiceManifest(name).ports)
    \cup SeqToSet(EffectiveSource(ServiceManifest(name).sources, get_mode(d, name)).ports)

\* C17: No ambient-variable leakage.  Every ${VAR} token outside the HSM_MERGED_PARAMS
\* namespace in an env value or a port string of a definition is in the generated
\* service spec as it is in the definition.
C17_NoAmbientLeakage ==
    ComposeFresh =>
        \A i \in 1..Len(composeFile) :
            LET cfg == composeFile[i].v
            IN /\ \A k \in DeclaredEnvKeys(data, cfg.name) :
                     SelectSeq(DictGet(cfg.environment, k), LAMBDA t : t \in AmbientTokens)
                        = SelectSeq(DeclaredEnvValue(data, cfg.name, k), LAMBDA t : t \in AmbientTokens)
               /\ \A port \in DeclaredPorts(data, cfg.name) \cap AmbientPorts :
                     SeqContains(cfg.ports, port)
               /\ SeqToSet(cfg.ports) \cap AmbientPorts \subseteq DeclaredPorts(data, cfg.name)

\* the compose file holds a service whose env had its own placeholder replaced next to
\* an untouched ${VAR} value, and a service with a ${VAR} port
C17_Witness ==
    /\ ComposeFresh
    /\ \E i, j \in 1..Len(composeFile) :
          /\ composeFile[i].k = "pg"
          /\ DictGet(composeFile[i].v.environment, "POSTGRES_MULTIPLE_DATABASES") = <<"billing_db">>
          /\ DictGet(composeFile[i].v.environment, "DB_PASSWORD") = <<"${NEO4J_PROD_PASSWORD}">>
          /\ composeFile[j].k = "web"
          /\ composeFile[j].v.ports = <<"${NEO4J_PROD_PORT}:7474">>

\* the selected library names in selection order: the group selections in manifest
\* order, then the standalone entries
SelectionOrder(d) ==
    [i \in 1..Len(GroupPicks(d.libGroups)) |-> GroupPicks(d.libGroups)[i].name] \o libraries(d)

\* C18: Library requirement uniqueness.  A library selected through several paths gives
\* the list handed to the package adapter one requirement, and the list is in the order
\* of first insertion: groups in manifest order, then standalone entries.
C18_RequirementUniqueness ==
    (syncResult = "ok" /\ inSync) =>
        LET names == [i \in 1..Len(packagesHanded) |-> packagesHanded[i][1]]
        IN /\ NoDuplicates(names)
           /\ names = DedupFirst(SelectSeq(SelectionOrder(data),
                                           LAMBDA n : HasRequirementSource(data, n)))

\* a sync with auth selected both as a standalone entry and in the group backend, and a
\* second library in the list
C18_Witness ==
    /\ syncResult = "ok" /\ inSync
    /\ SeqContains(libraries(data), "auth")
    /\ \E i \in 1..Len(data.libGroups) : SelectionHas(data.libGroups[i].selection, "auth")
    /\ Required("auth") /\ Required("billing")

\* the variant the mode of the component chooses
ChosenVariant(sources, mode) ==
    IF mode = "dev" /\ sources.dev.type # "none" THEN sources.dev ELSE sources.prod

\* the requirement of the last sync for the library, <<>> when there is none
RequirementFor(name) ==
    IF Required(name)
    THEN packagesHanded[CHOOSE i \in 1..Len(packagesHanded) : packagesHanded[i][1] = name]
    ELSE <<>>

\* C19: Effective source variant.  A component is materialized from its dev variant
\* exactly when get_mode is dev and a dev variant is defined, and from its prod variant
\* otherwise; with the chosen variant undefined it gives no artifact and sync does not
\* fail for it.
C19_EffectiveVariant ==
    /\ syncResult = "raised" => packagesHanded # <<>>
    /\ (syncResult = "ok" /\ inSync) =>
          /\ \A name \in SelectedLibraries(data) \cap RegistryLibraries :
                LET chosen == ChosenVariant(LibraryManifest(name).sources, get_mode(data, name))
                IN /\ chosen.type = "none" => ~Required(name)
                   /\ chosen.type = "local" =>
                         RequirementFor(name) = <<name, " @ ", "file://", project_root, "/", chosen.path>>
                   /\ chosen.type = "git" =>
                         RequirementFor(name) =
                            <<name, " @ git+", chosen.url>>
                            \o (IF chosen.ref = "" THEN <<>> ELSE <<"@", chosen.ref>>)
          /\ \A name \in SelectedServices(data) \cap RegistryServices :
                LET chosen == ChosenVariant(ServiceManifest(name).sources, get_mode(data, name))
                IN /\ chosen.type = "none" => HandedFor(name) = <<>>
                   /\ \A i \in 1..Len(HandedFor(name)) :
                         LET cfg == HandedFor(name)[i]
                         IN /\ chosen.type = "docker-image" =>
                                  cfg.image = chosen.image /\ cfg.build = <<>>
                            /\ chosen.type = "build" =>
                                  /\ cfg.image = ""
                                  /\ cfg.build = <<project_root, "/", chosen.path>>
                                  /\ cfg.dockerfile = chosen.dockerfile

\* a sync with billing in dev mode materialized from its local dev variant, pg in dev
\* mode built from its dev variant, and draft, which has no prod variant, in prod mode
\* and without a requirement
C19_Witness ==
    /\ syncResult = "ok" /\ inSync
    /\ get_mode(data, "billing") = "dev"
    /\ RequirementFor("billing") = <<"billing", " @ ", "file://", project_root, "/", "libs/billing">>
    /\ SeqContains(libraries(data), "draft") /\ get_mode(data, "draft") = "prod"
    /\ ~Required("draft")
    /\ get_mode(data, "pg") = "dev"
    /\ \E i \in 1..Len(containersHanded) : containersHanded[i].dockerfile = "Dockerfile.dev"

----------------------------------------------------------------------------
(* The sync command of the CLI: claim C20 *)

\* C20: Validation gate.  When the manifest has a reference the registry does not hold,
\* so that validation fails, the sync command calls neither the package adapter nor the
\* container adapter.
C20_ValidationGate ==
    [][(ReferentialViolations(data) > 0 /\ \E order \in HashOrders, uvOk \in BOOLEAN : Sync(order, uvOk))
          => (packagesHanded' = <<>> /\ containersHanded' = <<>>
              /\ UNCHANGED <<pyprojectDeps, composeFile>>)]_vars

----------------------------------------------------------------------------
(* Group selections and the expansion: claims C21 and C22 *)

\* C21: Selection shape follows strategy.  After add_group, add_group_option and
\* remove_group_option calls an exactly-one group holds a single name and an any-subset
\* group holds distinct names.
C21_ShapeFollowsStrategy ==
    \A i \in 1..Len(AllGroups(data)) :
        LET g == AllGroups(data)[i]
        IN /\ g.strategy = "1-of-N" => (g.selection.kind = "str" /\ Len(g.selection.names) = 1)
           /\ g.strategy = "M-of-N" => NoDuplicates(g.selection.names)

\* the libraries of the requirement list of the last sync
RequiredLibraries == {n \in RegistryLibraries : Required(n)}

\* C22: Expansion terminates at a fixed point.  When a sync has finished, also on an
\* implication graph with a cycle (auth implies billing, billing implies auth), its
\* outputs are closed under implies: what a materialized library implies is materialized.
C22_ExpansionFixedPoint ==
    (syncResult = "ok" /\ inSync) =>
        /\ \A name \in ImpliedBy(RequiredLibraries, "library") :
              HasRequirementSource(data, name) => Required(name)
        /\ \A name \in ImpliedBy(RequiredLibraries, "service") :
              HasServiceSource(data, name) => HandedFor(name) # <<>>

----------------------------------------------------------------------------
(* The order of the calls of one sync: claim C23 *)

ResolveCall(fn, names) == [i \in 1..Len(names) |-> [call |-> fn, arg |-> names[i]]]

PickNames(groups) == [i \in 1..Len(GroupPicks(groups)) |-> GroupPicks(groups)[i].name]

\* the names step 4.5 resolves: the "service:<name>" targets of the merged implies
ImpliedTargets(d) ==
    LET merged == ResolveLibraries(d).merged
    IN Flatten([i \in 1..Len(merged) |->
                  IF Len(merged[i].k) >= 2 /\ merged[i].k[1] = "service"
                  THEN <<merged[i].k[2]>> ELSE <<>>])

\* the package adapter called as soon as the requirement list is complete
SyncCallsEager(d, order, uvOk) ==
    ResolveCall("_resolve_package_requirement", PickNames(library_groups(d)) \o libraries(d))
    \o (IF packages_to_sync(d) # <<>>
        THEN <<[call |-> "package_adapter.sync", arg |-> "packages_to_sync"]>> ELSE <<>>)
    \o ResolveCall("_resolve_container_config",
                   PickNames(service_groups(d)) \o services(d) \o ImpliedTargets(d))
    \o (IF containers_to_sync(d, order) # <<>> /\ (packages_to_sync(d) = <<>> \/ uvOk)
        THEN <<[call |-> "container_adapter.generate_config", arg |-> "containers_to_sync"]>>
        ELSE <<>>)
\* SyncEngine.sync: the resolver and adapter calls of one pass, in program order;
\* a raise of the package adapter ends the pass
sync_calls(d, order, uvOk) ==
    ResolveCall("_resolve_package_requirement", PickNames(library_groups(d)) \o libraries(d))
    \o ResolveCall("_resolve_container_config",
                   PickNames(service_groups(d)) \o services(d) \o ImpliedTargets(d))
    \o (IF packages_to_sync(d) # <<>>
        THEN <<[call |-> "package_adapter.sync", arg |-> "packages_to_sync"]>> ELSE <<>>)
    \o (IF containers_to_sync(d, order) # <<>> /\ (packages_to_sync(d) = <<>> \/ uvOk)
        THEN <<[call |-> "container_adapter.generate_config", arg |-> "containers_to_sync"]>>
        ELSE <<>>)

IsAdapterCall(c) == c.call \in {"package_adapter.sync", "container_adapter.generate_config"}

\* C23: Resolve-then-dispatch ordering.  In every sync, from any selection state, no
\* resolver call comes after an adapter call: the requirement of every selected library
\* and the config of every selected and implied service are computed first.
C23_ResolveThenDispatch ==
    \A order \in HashOrders, uvOk \in BOOLEAN :
        LET calls == sync_calls(data, order, uvOk)
        IN \A i \in 1..Len(calls), j \in 1..Len(calls) :
              (IsAdapterCall(calls[i]) /\ ~IsAdapterCall(calls[j])) => j < i

\* a sync that resolved a library, a selected service and an implied service and then
\* called both adapters
C23_Witness ==
    /\ syncResult = "ok" /\ inSync
    /\ packagesHanded # <<>> /\ containersHanded # <<>>
    /\ services(data) # <<>> /\ ImpliedTargets(data) # <<>>
    /\ \A order \in HashOrders :
          Len(SelectSeq(sync_calls(data, order, TRUE), IsAdapterCall)) = 2

----------------------------------------------------------------------------
(* The registry commands: claim C24 *)

\* registry add and remove of a library and a service whose manifests the add
\* commands can write (no implies, no deployment profiles), and of both kinds of
\* group, with the project-side add_group
RegistryNext ==
    \/ RegistryAddLibrary("draft")
    \/ RegistryAddService("web")
    \/ \E g \in {"backend", "db"} : RegistryAddGroup(g, RegistryGroup(g).type)
    \/ \E name \in {"draft", "web", "backend", "db", "ghost"} : RegistryRemove(name)
    \/ AddGroup("backend", "auth")
    \/ AddGroup("db", "web")
    \/ \E g \in {"backend", "db"} : RemoveGroup(g)

RegistrySpec == Init /\ [][RegistryNext]_vars

Substrings(stem) == {SubSeq(stem, i, j) : i \in 1..Len(stem), j \in 1..Len(stem)}

\* lookup and every search by a substring of the name find the component
FoundIn(reg, name) ==
    /\ get_details(reg, name).found
    /\ \A query \in Substrings(Stem(name)) :
          LET results == search(reg, query)
          IN name \in results.libraries \cup results.services \cup results.groups

\* neither lookup nor any search by a substring of the name finds the component
AbsentFrom(reg, name) ==
    /\ ~get_details(reg, name).found
    /\ \A query \in Substrings(Stem(name)) :
          LET results == search(reg, query)
          IN name \notin results.libraries \cup results.services \cup results.groups

\* C24: Registry add/lookup round trip.  After the registry add of a library, a
\* service, a library group or a service group, lookup and search find the name and
\* the project-side add_group finds a group; after remove none of them does, and
\* remove of a name no directory holds raises.
C24_RegistryRoundTrip ==
    [][/\ RegistryAddLibrary("draft") => FoundIn(registry', "draft")
       /\ RegistryAddService("web") => FoundIn(registry', "web")
       /\ \A g \in {"backend", "db"} :
             RegistryAddGroup(g, RegistryGroup(g).type) =>
                 (FoundIn(registry', g) /\ (~add_group(data, g, "ghost").raised)')
       /\ \A name \in {"draft", "web", "backend", "db", "ghost"} :
             RegistryRemove(name) =>
                 /\ AbsentFrom(registry', name)
                 /\ (add_group(data, name, "ghost").raised)'
                 /\ (\A c \in DOMAIN registry : name \notin registry[c])
                       => registry_remove(registry, name).raised]_vars

----------------------------------------------------------------------------
(* Sync and the selection state: claim C25 *)

\* C25: Resolution is read-only.  A sync pass, whether it succeeds or the package
\* adapter raises, leaves the manifest data (group selections, standalone entries,
\* modes, profiles), the manifest file and the registry as they were.
C25_SyncReadOnly ==
    [][\A order \in HashOrders, uvOk \in BOOLEAN :
          Sync(order, uvOk) =>
              /\ data' = data
              /\ manifestOnDisk' = manifestOnDisk
              /\ registry' = registry]_vars

\* a sync in which the package adapter raised, on a manifest with a library that
\* yields a requirement, one that yields none, and a service
C25_Witness ==
    /\ syncResult = "raised"
    /\ pyprojectDeps # <<>>
    /\ SeqContains(libraries(data), "auth") /\ SeqContains(libraries(data), "stats")
    /\ services(data) # <<>>

----------------------------------------------------------------------------
(* The generated files after a change of the selection: claim C26 *)

\* selections added, synchronised, removed and synchronised again
TrackNext ==
    \/ AddLibrary("auth")
    \/ RemoveLibrary("auth")
    \/ \E name \in {"pg", "web"} : AddService(name)
    \/ \E name \in {"pg", "web"} : RemoveService(name)
    \/ \E order \in HashOrders, uvOk \in BOOLEAN : Sync(order, uvOk)

TrackSpec == Init /\ [][TrackNext]_vars

\* C26: Generated artifacts track the current selection.  After a successful sync of
\* the current manifest, docker-compose.hsm.yml holds exactly the services resolved
\* from it and the dependency list of pyproject.toml is the current requirement list,
\* also when the resolved set has become empty.
C26_ArtifactsTrackSelection ==
    (syncResult = "ok" /\ inSync) =>
        /\ pyprojectDeps = packages_to_sync(data)
        /\ \E order \in HashOrders :
              composeFile = generate_config(containers_to_sync(data, order), <<>>)

----------------------------------------------------------------------------
(* The standalone lists: claims C27 and C28 *)

\* C27: Standalone entries are unique by name.  After any interleaving of add and
\* set_mode calls a name occurs at most once in the standalone libraries and at most
\* once in the standalone services.
C27_StandaloneUnique ==
    /\ NoDuplicates(libraries(data))
    /\ NoDuplicates(services(data))

OtherEntries(entries, name) == SelectSeq(entries, LAMBDA e : e.name # name)

\* C28: Removal is effective.  After remove_library(name) the name is not among the
\* standalone libraries (after remove_service(name), not among the services), whatever
\* add and set_mode calls came before, and no other entry is changed.
C28_RemovalEffective ==
    [][\A name \in ComponentInputs :
          /\ RemoveLibrary(name) =>
                /\ ~SeqContains(libraries(data'), name)
                /\ OtherEntries(data'.libStandalone, name) = OtherEntries(data.libStandalone, name)
                /\ data'.svcStandalone = data.svcStandalone
          /\ RemoveService(name) =>
                /\ ~SeqContains(services(data'), name)
                /\ OtherEntries(data'.svcStandalone, name) = OtherEntries(data.svcStandalone, name)
                /\ data'.libStandalone = data.libStandalone]_vars

----------------------------------------------------------------------------
(* add_group and hsm.yaml: claim C29 *)

\* add_group with options whose implies name groups the registry holds (auth), a
\* group it does not hold after one it holds (draft), and with a group it does not hold
AtomicNext ==
    \/ \E o \in {"auth", "draft"} : AddGroup("backend", o)
    \/ \E o \in {"pg", "web"} : AddGroup("db", o)
    \/ AddGroup("ghost", "pg")
    \/ \E o \in {"auth", "billing"} : AddGroupOption("backend", o)
    \/ \E g \in {"backend", "db"} : RemoveGroup(g)
    \/ \E name \in {"auth", "billing"} : AddLibrary(name)

AtomicSpec == Init /\ [][AtomicNext]_vars

\* C29: add_group is all-or-nothing.  When add_group(group, option) raises, hsm.yaml
\* holds exactly what it held before the call.
C29_AddGroupAllOrNothing ==
    [][\A g \in {"backend", "db", "ghost"}, o \in {"auth", "draft", "pg", "web"} :
          (AddGroup(g, o) /\ add_group(data, g, o).raised)
              => (data' = data /\ manifestOnDisk' = manifestOnDisk)]_vars

----------------------------------------------------------------------------
(* Whose implies are collected: claim C30 *)

\* libraries that resolve (auth, billing), one without a usable source variant (stats;
\* draft in prod mode), one the registry does not hold (ghost), and a service-group
\* selection whose option has implies (infra: web)
ImplyNext ==
    \/ \E name \in {"auth", "stats", "ghost"} : AddLibrary(name)
    \/ \E o \in {"billing", "draft"} : AddGroupOption("backend", o)
    \/ AddGroupOption("infra", "web")
    \/ \E order \in HashOrders, uvOk \in BOOLEAN : Sync(order, uvOk)

ImplySpec == Init /\ [][ImplyNext]_vars

\* the selected library yields a requirement string
Resolves(d, name) == _resolve_package_requirement(d, name) # <<>>

\* how many implies of resolving library selections name the target: the options of
\* the library-group selections, then the manifests of the standalone libraries
ResolvingImplications(d, target) ==
    LET picks == GroupPicks(library_groups(d))
        names == libraries(d)
        naming(implies) == Cardinality({j \in 1..Len(implies) : implies[j].target = target})
        ofPick[i \in 0..Len(picks)] ==
            IF i = 0 THEN 0
            ELSE ofPick[i - 1] + (IF Resolves(d, picks[i].name)
                                  THEN naming(OptionImplies(picks[i].group, picks[i].name)) ELSE 0)
        ofName[i \in 0..Len(names)] ==
            IF i = 0 THEN 0
            ELSE ofName[i - 1] + (IF Resolves(d, names[i])
                                  THEN naming(LibraryManifest(names[i]).implies) ELSE 0)
    IN ofPick[Len(picks)] + ofName[Len(names)]

ImplyTargets ==
    {<<"service", "pg">>, <<"service", "ghost">>, <<"library", "auth">>,
     <<"library", "billing">>, <<"service_group", "db">>, <<"service_group", "ghost">>}

\* C30: Implications are collected only from selections that themselves resolve.  The
\* merged implies of a sync hold, for every target, one parameter bag per implies entry
\* of a selected library (or of its group option) that yields a requirement string, and
\* nothing from a library without a usable source variant, a library the registry does
\* not hold, or a service-group selection; a service is implied only through them.
C30_ImpliesOnlyFromResolved ==
    LET merged == ResolveLibraries(data).merged
    IN /\ \A target \in ImplyTargets :
             (IF DictHas(merged, target) THEN Len(DictGet(merged, target)) ELSE 0)
                 = ResolvingImplications(data, target)
       /\ SeqToSet(DictKeys(merged)) \subseteq ImplyTargets
       /\ (syncResult = "ok" /\ inSync) =>
             \A name \in RegistryServices \ SelectedServices(data) :
                 HandedFor(name) # <<>>
                     <=> (ResolvingImplications(data, <<"service", name>>) > 0
                          /\ HasServiceSource(data, name))

\* a sync of a manifest that selects a resolving library, a library without a usable
\* variant whose manifest has implies, a library the registry does not hold, a group
\* option that resolves and one that does not, and a service-group option with implies
C30_Witness ==
    /\ syncResult = "ok" /\ inSync
    /\ {"auth", "stats", "ghost"} \subseteq SeqToSet(libraries(data))
    /\ {"billing", "draft"} \subseteq {p.name : p \in SeqToSet(GroupPicks(library_groups(data)))}
    /\ \E p \in SeqToSet(GroupPicks(service_groups(data))) : p.group = "infra" /\ p.name = "web"
    /\ ~Resolves(data, "stats") /\ ~Resolves(data, "draft") /\ Resolves(data, "auth")
    /\ ResolvingImplications(data, <<"service", "pg">>) = 2
    /\ HandedFor("pg") # <<>>

====
